---- MODULE Spec2Model ----
(***************************************************************************)
(* Model of the push-to-talk voice agent.                                  *)
(*                                                                         *)
(*  - openai_client/client.py: the turn controller (handle_push_to_talk,   *)
(*    its two call_later timers, request_answer, check_missed_turn and     *)
(*    the inbound event handler _handle_event).  Everything here runs on   *)
(*    the asyncio event loop, so one loop iteration, one timer callback    *)
(*    and one event handler are each one atomic action.                    *)
(*  - audio/capture.py: MicrophoneStreamTrack (hardware callback in the    *)
(*    PyAudio thread, the frame queue, recv()).                            *)
(*                                                                         *)
(* Time is abstracted: a pending timer may fire at any moment, and the     *)
(* key may change between two polls.                                       *)
(***************************************************************************)
EXTENDS Naturals, Sequences, FiniteSets, TLC

VARIABLES
    \* ---- openai_client/client.py --------------------------------------
    waiting_for_reply,   \* global waiting_for_reply
    commit_received,     \* global commit_received
    chan,                \* events_channel.readyState
    space,               \* keyboard.is_pressed("space") right now
    space_was_down,      \* local of handle_push_to_talk
    mute_timer,          \* local handle: "None", "pending" or "fired"
    watchdog,            \* local handle: "None", "pending" or "fired"
    muteTimers,          \* _on_mute callbacks scheduled on the loop
    watchdogTimers,      \* check_missed_turn callbacks scheduled on the loop
    speech_start_time,   \* TRUE when set, FALSE when None
    \* ---- audio/capture.py ---------------------------------------------
    suspended,           \* MicrophoneStreamTrack.suspended
    is_recording,        \* MicrophoneStreamTrack.is_recording
    force_stop,          \* MicrophoneStreamTrack.force_stop
    threads,             \* capture threads alive (each with its stream)
    cbPc,                \* hardware callback: "idle" or "passed" (check done)
    cbChunk,             \* the chunk the running callback holds
    scheduled,           \* put_nowait calls queued by call_soon_threadsafe
    frames_queue,        \* MicrophoneStreamTrack.frames_queue
    samples_sent,        \* MicrophoneStreamTrack.samples_sent
    recvPc,              \* recv(): "idle" or "waiting" (inside wait_for)
    chunksMade,          \* chunks delivered by the device so far
    \* ---- history (observers, read by no action guard) ------------------
    last,                \* the last turn-controller step
    turnSent,            \* control messages sent since the turn began
    rcSinceStopped,      \* response.create sent since the last stopped event
    graceMuted,          \* _on_mute muted + committed, and nothing undid it
    ackRan,              \* committed handler ran since graceMuted
    wdRan,               \* check_missed_turn ran since graceMuted
    ackInTurn,           \* a committed event was handled in this turn
    scenario,            \* progress of press, release, grace, committed
    frames,              \* the frames recv() has returned, in order
    realWhileSuspended,  \* recv() returned a real frame with suspended true
    \* ---- audio/playback.py --------------------------------------------
    is_playing,          \* AudioPlayback.is_playing
    output_stream,       \* AudioPlayback.output_stream: "None", "open", "closed"
    playPc,              \* play_track: "none", "loop", "recv", "sleep", "done"
    consecutive_errors,  \* local of play_track
    playStop,            \* why play_track left its loop ("none" while in it)
    playIters,           \* frames play_track has pulled so far
    errStreak,           \* history: frames in a row that hit a real error
    playLast,            \* history: outcome of the last frame's work
    \* ---- main.py, and the session's tasks ------------------------------
    restarts,            \* in-place stream restarts the capture thread did
    is_running,          \* VoiceAgent.is_running
    agentPc,             \* VoiceAgent.start: "created", "recording",
                         \*   "waiting", "running", "ended"
    pc,                  \* the RTCPeerConnection: "None", "open", "closed"
    connState,           \* pc.connectionState: "new", "connected", "failed"
    pttCancelled,        \* push_to_talk_task.cancel() was called
    playCancel,          \* player_task.cancel() was called
    stopPc,              \* VoiceAgent.stop / disconnect: "idle", "ptt",
                         \*   "player", "playback", "closed"
    stopTasks,           \* stop() tasks the signal handler made, not yet run
    teardowns,           \* history: times the body of stop() was entered
    stopSkipped          \* history: a stop() call found is_running false

turnVars == <<waiting_for_reply, commit_received, chan, space, space_was_down,
              mute_timer, watchdog, muteTimers, watchdogTimers,
              speech_start_time>>
sessVars == <<restarts, is_running, agentPc, pc, connState, pttCancelled,
              playCancel, stopPc, stopTasks, teardowns, stopSkipped>>
playVars == <<is_playing, output_stream, playPc, consecutive_errors, playStop,
              playIters, errStreak, playLast>>
turnHist == <<last, turnSent, rcSinceStopped, graceMuted, ackRan, wdRan,
              ackInTurn, scenario>>
capVars  == <<is_recording, force_stop, threads, cbPc, cbChunk, scheduled,
              frames_queue, samples_sent, recvPc, chunksMade, frames,
              realWhileSuspended>>
vars == <<turnVars, suspended, capVars, turnHist, playVars, sessVars>>

\* Config.CHUNK_SIZE
CHUNK_SIZE == 1024

\* Bounds of the model.
MaxChunks == 2
MaxFrames == 3
MaxThreads == 2
MaxPlayIters == 4
MaxRestarts == 3
MaxStopTasks == 2

NoChunk == [id |-> 0, ok |-> TRUE]

----------------------------------------------------------------------------
\* Initial state: module globals, MicrophoneStreamTrack.__init__, and the
\* locals of handle_push_to_talk; the events channel is not open yet.
Init ==
    /\ waiting_for_reply = FALSE
    /\ commit_received = FALSE
    /\ chan = "connecting"
    /\ space = FALSE
    /\ space_was_down = FALSE
    /\ mute_timer = "None"
    /\ watchdog = "None"
    /\ muteTimers = 0
    /\ watchdogTimers = 0
    /\ speech_start_time = FALSE
    /\ suspended = TRUE
    /\ is_recording = FALSE
    /\ force_stop = FALSE
    /\ threads = 0
    /\ cbPc = "idle"
    /\ cbChunk = NoChunk
    /\ scheduled = <<>>
    /\ frames_queue = <<>>
    /\ samples_sent = 0
    /\ recvPc = "idle"
    /\ chunksMade = 0
    /\ last = [op |-> "init", mute |-> FALSE, wd |-> FALSE, acc |-> FALSE, ack |-> FALSE]
    /\ turnSent = <<>>
    /\ rcSinceStopped = 0
    /\ graceMuted = FALSE
    /\ ackRan = FALSE
    /\ wdRan = FALSE
    /\ ackInTurn = FALSE
    /\ scenario = 0
    /\ frames = <<>>
    /\ realWhileSuspended = FALSE
    /\ is_playing = FALSE
    /\ output_stream = "None"
    /\ playPc = "none"
    /\ consecutive_errors = 0
    /\ playStop = "none"
    /\ playIters = 0
    /\ errStreak = 0
    /\ playLast = [step |-> "init", exc |-> "none"]
    /\ restarts = 0
    /\ is_running = FALSE
    /\ agentPc = "created"
    /\ pc = "None"
    /\ connState = "new"
    /\ pttCancelled = FALSE
    /\ playCancel = FALSE
    /\ stopPc = "idle"
    /\ stopTasks = 0
    /\ teardowns = 0
    /\ stopSkipped = FALSE

Step(op) == [op |-> op, mute |-> FALSE, wd |-> FALSE, acc |-> FALSE, ack |-> FALSE]

\* The spec's AwaitingCommitAck: _on_mute has muted the mic and sent the
\* commit, the watchdog it armed is pending, no response requested yet.
AwaitingCommitAck == graceMuted /\ watchdog = "pending" /\ ~waiting_for_reply

----------------------------------------------------------------------------
\* (client.py) request_answer: the gate of line 177, and its send.

\* Mutant: the gate without its "not waiting_for_reply" conjunct.
RequestAnswerGateNoWaiting(cr) == suspended /\ cr

\* Mutant: the gate without its "mic muted" conjunct.
RequestAnswerGateNoMute(cr) == cr /\ ~waiting_for_reply

\* `if mic_track.suspended and commit_received and not waiting_for_reply`,
\* cr being the value of commit_received when request_answer is called.
RequestAnswerGate(cr) == suspended /\ cr /\ ~waiting_for_reply

\* `events_channel and events_channel.readyState == "open"`
ChannelOpen == chan = "open"

\* request_answer(mic_track, events_channel), called with commit_received = cr.
RequestAnswer(cr) ==
    IF RequestAnswerGate(cr) /\ ChannelOpen
    THEN /\ waiting_for_reply' = TRUE
         /\ commit_received' = FALSE
         /\ turnSent' = Append(turnSent, "create")
         /\ rcSinceStopped' = rcSinceStopped + 1
    ELSE /\ waiting_for_reply' = waiting_for_reply
         /\ commit_received' = cr
         /\ UNCHANGED <<turnSent, rcSinceStopped>>

\* Mutant: the watchdog forces the request whatever commit_received is.
CheckMissedTurnAlways == ~waiting_for_reply

\* check_missed_turn: `if commit_received and not waiting_for_reply`
CheckMissedTurnFires == commit_received /\ ~waiting_for_reply

----------------------------------------------------------------------------
\* (client.py) the events channel.

\* Mutant: the greeting is sent without setting waiting_for_reply.
OnEventsOpenIdle ==
    /\ chan = "connecting"
    /\ chan' = "open"
    /\ waiting_for_reply' = FALSE
    /\ turnSent' = Append(turnSent, "create")
    /\ rcSinceStopped' = rcSinceStopped + 1
    /\ last' = Step("open")
    /\ scenario' = 0
    /\ UNCHANGED <<commit_received, space, space_was_down, mute_timer, watchdog,
                   muteTimers, watchdogTimers, speech_start_time, suspended,
                   graceMuted, ackRan, wdRan, ackInTurn, capVars, playVars, sessVars>>

\* on_events_open: starts handle_push_to_talk, sends the greeting item and
\* a response.create, sets waiting_for_reply.
OnEventsOpen ==
    /\ chan = "connecting"
    /\ chan' = "open"
    /\ waiting_for_reply' = TRUE
    /\ turnSent' = Append(turnSent, "create")
    /\ rcSinceStopped' = rcSinceStopped + 1
    /\ last' = Step("open")
    /\ scenario' = 0
    /\ UNCHANGED <<commit_received, space, space_was_down, mute_timer, watchdog,
                   muteTimers, watchdogTimers, speech_start_time, suspended,
                   graceMuted, ackRan, wdRan, ackInTurn, capVars, playVars, sessVars>>

\* The transport closes the data channel: readyState is no longer "open".
ChanClose ==
    /\ chan = "open"
    /\ chan' = "closed"
    /\ last' = Step("close")
    /\ graceMuted' = FALSE
    /\ ackRan' = FALSE
    /\ wdRan' = FALSE
    /\ scenario' = 0
    /\ UNCHANGED <<waiting_for_reply, commit_received, space, space_was_down,
                   mute_timer, watchdog, muteTimers, watchdogTimers,
                   speech_start_time, suspended, turnSent, rcSinceStopped,
                   ackInTurn, capVars, playVars, sessVars>>

----------------------------------------------------------------------------
\* (client.py) handle_push_to_talk: the key and one iteration of the poll loop.

\* The user presses the key (seen by the next keyboard.is_pressed).
KeyDown ==
    /\ ~space
    /\ space' = TRUE
    /\ UNCHANGED <<waiting_for_reply, commit_received, chan, space_was_down,
                   mute_timer, watchdog, muteTimers, watchdogTimers,
                   speech_start_time, suspended, capVars, playVars, sessVars, turnHist>>

\* The user lets go of the key.
KeyUp ==
    /\ space
    /\ space' = FALSE
    /\ UNCHANGED <<waiting_for_reply, commit_received, chan, space_was_down,
                   mute_timer, watchdog, muteTimers, watchdogTimers,
                   speech_start_time, suspended, capVars, playVars, sessVars, turnHist>>

\* Mutant: every press edge starts a turn.
PressAcceptedAlways == TRUE

\* Mutant: a press edge is also ignored while the watchdog is pending.
PressAcceptedNoWatchdog == ~waiting_for_reply /\ watchdog # "pending"

\* `if not waiting_for_reply:` of the press edge
PressAccepted == ~waiting_for_reply

\* Mutant: the press edge leaves a pending mute timer alone.
CancelKeepsPending(t) == t

\* `if t: t.cancel(); t = None`: the handle after the press edge.
CancelHandle(t) == "None"

\* The callbacks still scheduled once handle t was cancelled as above.
CancelCount(t, n) == IF t = "pending" /\ CancelHandle(t) = "None" THEN n - 1 ELSE n

\* The loop iteration that sees `space_down and not space_was_down`.
PollPressEdge ==
    /\ chan # "connecting"
    /\ ~pttCancelled
    /\ space /\ ~space_was_down
    /\ space_was_down' = TRUE
    /\ mute_timer' = CancelHandle(mute_timer)
    /\ muteTimers' = CancelCount(mute_timer, muteTimers)
    /\ watchdog' = CancelHandle(watchdog)
    /\ watchdogTimers' = CancelCount(watchdog, watchdogTimers)
    /\ last' = [op |-> "press", mute |-> mute_timer = "pending",
                wd |-> watchdog = "pending", acc |-> PressAccepted,
                ack |-> AwaitingCommitAck]
    /\ IF PressAccepted
       THEN /\ suspended' = FALSE
            /\ speech_start_time' = TRUE
            /\ turnSent' = <<>>
            /\ graceMuted' = FALSE
            /\ ackRan' = FALSE
            /\ wdRan' = FALSE
            /\ ackInTurn' = FALSE
            /\ scenario' = IF chan = "open" THEN 1 ELSE 0
       ELSE /\ scenario' = 0
            /\ UNCHANGED <<suspended, speech_start_time, turnSent, graceMuted,
                           ackRan, wdRan, ackInTurn>>
    /\ UNCHANGED <<waiting_for_reply, commit_received, chan, space,
                   rcSinceStopped, capVars, playVars, sessVars>>

\* `if not mic_track.suspended and speech_start_time:` of the release edge
ReleaseArms == ~suspended /\ speech_start_time

\* The loop iteration that sees `not space_down and space_was_down`.
PollReleaseEdge ==
    /\ chan # "connecting"
    /\ ~pttCancelled
    /\ ~space /\ space_was_down
    /\ space_was_down' = FALSE
    /\ last' = [op |-> "release", mute |-> FALSE, wd |-> FALSE,
                acc |-> ReleaseArms, ack |-> FALSE]
    /\ IF ReleaseArms
       THEN /\ mute_timer' = "pending"
            /\ muteTimers' = muteTimers + 1
            /\ speech_start_time' = FALSE
            /\ scenario' = IF scenario = 1 THEN 2 ELSE 0
       ELSE /\ scenario' = 0
            /\ UNCHANGED <<mute_timer, muteTimers, speech_start_time>>
    /\ UNCHANGED <<waiting_for_reply, commit_received, chan, space, watchdog,
                   watchdogTimers, suspended, turnSent, rcSinceStopped,
                   graceMuted, ackRan, wdRan, ackInTurn, capVars, playVars, sessVars>>

\* Mutant: _on_mute never sends the commit.
CommitSendableNever == FALSE

\* `if events_channel and events_channel.readyState == "open":` of _on_mute
CommitSendable == chan = "open"

\* The mute-grace timer fires: _on_mute.
OnMute ==
    /\ muteTimers > 0
    /\ muteTimers' = muteTimers - 1
    /\ mute_timer' = IF mute_timer = "pending" /\ muteTimers = 1
                     THEN "fired" ELSE mute_timer
    /\ suspended' = TRUE
    /\ turnSent' = IF CommitSendable THEN Append(turnSent, "commit") ELSE turnSent
    /\ watchdog' = "pending"
    /\ watchdogTimers' = watchdogTimers + 1
    /\ last' = Step("mute")
    /\ graceMuted' = (chan = "open")
    /\ ackRan' = FALSE
    /\ wdRan' = FALSE
    /\ scenario' = IF scenario = 2 /\ chan = "open" THEN 3 ELSE 0
    /\ UNCHANGED <<waiting_for_reply, commit_received, chan, space,
                   space_was_down, speech_start_time, rcSinceStopped,
                   ackInTurn, capVars, playVars, sessVars>>

\* The watchdog timer fires: check_missed_turn.
WatchdogFire ==
    /\ watchdogTimers > 0
    /\ watchdogTimers' = watchdogTimers - 1
    /\ watchdog' = IF watchdog = "pending" /\ watchdogTimers = 1
                   THEN "fired" ELSE watchdog
    /\ IF CheckMissedTurnFires
       THEN RequestAnswer(commit_received)
       ELSE UNCHANGED <<waiting_for_reply, commit_received, turnSent,
                        rcSinceStopped>>
    /\ last' = Step("watchdog")
    /\ wdRan' = graceMuted
    /\ scenario' = 0
    /\ UNCHANGED <<chan, space, space_was_down, mute_timer, muteTimers,
                   speech_start_time, suspended, graceMuted, ackRan,
                   ackInTurn, capVars, playVars, sessVars>>

----------------------------------------------------------------------------
\* (client.py) _handle_event: one inbound message on the open events channel.

\* Mutant: the committed handler also cancels the pending watchdog.
HandleCommittedCancelsWatchdog ==
    /\ chan = "open"
    /\ RequestAnswer(TRUE)
    /\ watchdog' = IF watchdog = "pending" THEN "None" ELSE watchdog
    /\ watchdogTimers' = IF watchdog = "pending" THEN watchdogTimers - 1
                         ELSE watchdogTimers
    /\ last' = Step("committed")
    /\ ackRan' = graceMuted
    /\ ackInTurn' = TRUE
    /\ scenario' = IF scenario = 3 THEN 4 ELSE 0
    /\ UNCHANGED <<chan, space, space_was_down, mute_timer, muteTimers,
                   speech_start_time, suspended, graceMuted, wdRan, capVars, playVars, sessVars>>

\* event_type == "input_audio_buffer.committed"
HandleCommitted ==
    /\ chan = "open"
    /\ RequestAnswer(TRUE)
    /\ last' = Step("committed")
    /\ ackRan' = graceMuted
    /\ ackInTurn' = TRUE
    /\ scenario' = IF scenario = 3 THEN 4 ELSE 0
    /\ UNCHANGED <<chan, space, space_was_down, mute_timer, watchdog,
                   muteTimers, watchdogTimers, speech_start_time, suspended,
                   graceMuted, wdRan, capVars, playVars, sessVars>>

\* event_type == "response.output_item.added": mic_track.suspend(True)
HandleOutputItemAdded ==
    /\ chan = "open"
    /\ suspended' = TRUE
    /\ last' = Step("item_added")
    /\ scenario' = 0
    /\ UNCHANGED <<waiting_for_reply, commit_received, chan, space,
                   space_was_down, mute_timer, watchdog, muteTimers,
                   watchdogTimers, speech_start_time, turnSent,
                   rcSinceStopped, graceMuted, ackRan, wdRan, ackInTurn,
                   capVars, playVars, sessVars>>

\* event_type == "output_audio_buffer.stopped": both flags reset
HandleStopped ==
    /\ chan = "open"
    /\ waiting_for_reply' = FALSE
    /\ commit_received' = FALSE
    /\ last' = Step("stopped")
    /\ turnSent' = <<>>
    /\ rcSinceStopped' = 0
    /\ graceMuted' = FALSE
    /\ ackRan' = FALSE
    /\ wdRan' = FALSE
    /\ scenario' = 0
    /\ UNCHANGED <<chan, space, space_was_down, mute_timer, watchdog,
                   muteTimers, watchdogTimers, speech_start_time, suspended,
                   ackInTurn, capVars, playVars, sessVars>>

\* The message types whose branch touches none of the modelled state, a type
\* no branch matches ("unknown"), and the messages json.loads ("malformed")
\* or event.get ("nonobject") raises on.
OtherEvents == {"error", "input_audio_buffer.started",
                "conversation.item.input_audio_transcription.completed",
                "conversation.item.input_audio_transcription.failed",
                "output_audio_buffer.started", "response.audio_transcript.delta",
                "response.audio_transcript.done", "response.done",
                "unknown", "malformed", "nonobject"}

\* Mutant: the handler has no try/except around parsing.
EscapesUnparsed(t) == t \in {"malformed", "nonobject"}

\* Whether handling message t raises out of _handle_event: json.loads
\* raises on "malformed" and event.get on "nonobject" (valid JSON that is
\* no object), both inside `try: ... except Exception`.
Escapes(t) == FALSE

\* Mutant: response.done also ends the wait for the reply.
HandleOtherDoneResets ==
    /\ chan = "open"
    /\ \E t \in OtherEvents :
         /\ last' = Step(IF Escapes(t) THEN "raised" ELSE t)
         /\ waiting_for_reply' = IF t = "response.done" THEN FALSE
                                 ELSE waiting_for_reply
    /\ UNCHANGED <<commit_received, chan, space, space_was_down, mute_timer,
                   watchdog, muteTimers, watchdogTimers, speech_start_time,
                   suspended, capVars, playVars, sessVars, turnSent,
                   rcSinceStopped, graceMuted, ackRan, wdRan, ackInTurn,
                   scenario>>

\* Every other message: its branch (or none) runs and changes nothing here.
HandleOther ==
    /\ chan = "open"
    /\ \E t \in OtherEvents : last' = Step(IF Escapes(t) THEN "raised" ELSE t)
    /\ UNCHANGED <<turnVars, suspended, capVars, playVars, sessVars, turnSent, rcSinceStopped,
                   graceMuted, ackRan, wdRan, ackInTurn, scenario>>

TurnNext ==
    \/ OnEventsOpen
    \/ ChanClose
    \/ KeyDown
    \/ KeyUp
    \/ PollPressEdge
    \/ PollReleaseEdge
    \/ OnMute
    \/ WatchdogFire
    \/ HandleCommitted
    \/ HandleOutputItemAdded
    \/ HandleStopped
    \/ HandleOther

\* The turn controller with its events channel, key and timers.
Spec == Init /\ [][TurnNext]_vars

----------------------------------------------------------------------------
\* Properties of the turn controller.

\* response.create messages sent since the turn began.
RcInTurn == Cardinality({i \in DOMAIN turnSent : turnSent[i] = "create"})

\* A loop iteration that detected a press edge.
PressEdgeStep == ~space_was_down /\ space_was_down'

\* C1: once _on_mute has muted the mic and sent the commit, and the mic has
\* stayed muted with the channel open, if both the committed handler and
\* check_missed_turn have run (in either order) then exactly one
\* response.create has been sent in the turn, before the next stopped event.
C1_ExactlyOncePerTurn ==
    (graceMuted /\ ackRan /\ wdRan) => RcInTurn = 1

\* C1 witness: the watchdog ran first, the committed handler after it.
C1_BothRan ==
    /\ graceMuted /\ ackRan /\ wdRan
    /\ suspended /\ chan = "open"
    /\ last.op = "committed"

\* C2 (as claimed): when no committed event was received in the turn and the
\* watchdog of the committed turn has expired, one forced response.create
\* has been sent.
C2_ForcedOnExpiry ==
    (graceMuted /\ wdRan /\ ~ackInTurn) => RcInTurn = 1

\* C3: at most one response.create is sent between two consecutive stopped
\* events, and between the channel opening and the first stopped event,
\* the greeting's one included.
C3_AtMostOnePerStopped == rcSinceStopped <= 1

\* C3 witness: a gated request was sent and another trigger ran after it.
C3_SentThenTriggered ==
    /\ rcSinceStopped = 1
    /\ graceMuted /\ ackRan /\ wdRan
    /\ last.op = "watchdog"

\* C4: after press edge, release edge, mute-grace expiry and one committed
\* event (channel open, nothing else in between) the control channel has
\* carried exactly one commit and then exactly one response.create.
C4_CommitThenCreate ==
    scenario = 4 => turnSent = <<"commit", "create">>

\* C4 witness: the scenario ran to its end.
C4_ScenarioDone == scenario = 4 /\ last.op = "committed"

C6_PressIgnoredWhileWaiting ==
    [][(PressEdgeStep /\ waiting_for_reply) =>
            /\ suspended' = suspended
            /\ speech_start_time' = speech_start_time
            /\ waiting_for_reply'
            /\ commit_received' = commit_received
            /\ turnSent' = turnSent
            /\ rcSinceStopped' = rcSinceStopped]_vars

\* C6 witness: a press edge was detected while waiting and ignored.
C6_PressWhileWaiting ==
    /\ last.op = "press" /\ ~last.acc
    /\ waiting_for_reply /\ suspended /\ space_was_down

\* C7 (as claimed): a press edge detected in AwaitingCommitAck neither
\* unmutes the mic nor cancels the watchdog.
C7_PressKeepsAwaitingAck ==
    [][(PressEdgeStep /\ AwaitingCommitAck) =>
            (suspended' /\ watchdog' = "pending" /\ watchdogTimers' = watchdogTimers)]_vars

\* C7 (amended): a press edge detected in AwaitingCommitAck cancels the
\* pending watchdog and unmutes the mic, and sends no response.create.
C7_PressLeavesAwaitingAck ==
    [][(PressEdgeStep /\ AwaitingCommitAck) =>
            /\ ~suspended'
            /\ watchdog' = "None"
            /\ watchdogTimers' = 0
            /\ speech_start_time'
            /\ rcSinceStopped' = rcSinceStopped
            /\ UNCHANGED <<waiting_for_reply, commit_received>>]_vars

\* C7 witness: a press edge was accepted in AwaitingCommitAck.
C7_PressedInAwaitingAck ==
    /\ last.op = "press" /\ last.ack /\ last.wd
    /\ ~suspended /\ watchdogTimers = 0

\* C16: at most one _on_mute callback and at most one check_missed_turn
\* callback are scheduled at any time, so a timer is never armed while an
\* earlier one of its kind is pending.
C16_OneTimerOfEachKind ==
    /\ muteTimers <= 1
    /\ watchdogTimers <= 1
    /\ (muteTimers = 1 => mute_timer = "pending")
    /\ (watchdogTimers = 1 => watchdog = "pending")

\* C16 witness: a turn armed its watchdog after an earlier turn's watchdog
\* had been armed and cancelled by the press edge.
C16_SecondWatchdogArmed ==
    /\ last.op = "mute" /\ watchdogTimers = 1
    /\ ackInTurn /\ ~ackRan /\ commit_received

\* C17 (as claimed): handling committed while the watchdog is pending
\* cancels it: no watchdog is pending when the handler returns.
C17_CommittedCancelsWatchdog ==
    [][(HandleCommitted /\ watchdog = "pending") =>
            (watchdog' # "pending" /\ watchdogTimers' = 0)]_vars

\* C17 (amended): handling committed leaves the watchdog as it was, pending
\* included; a check_missed_turn that runs while a response is awaited
\* sends nothing and changes neither flag.
C17_CommittedKeepsWatchdog ==
    /\ [][HandleCommitted =>
            (watchdog' = watchdog /\ watchdogTimers' = watchdogTimers)]_vars
    /\ [][(WatchdogFire /\ waiting_for_reply) =>
            UNCHANGED <<waiting_for_reply, commit_received, turnSent,
                        rcSinceStopped>>]_vars

\* C17 witness: the committed handler has requested the response and the
\* watchdog of the turn is still pending.
C17_WatchdogStillPending ==
    /\ last.op = "committed" /\ graceMuted /\ ackRan
    /\ waiting_for_reply /\ watchdog = "pending" /\ watchdogTimers = 1

\* C19: handling response.output_item.added leaves the mic suspended, and a
\* suspended mic is resumed by nothing but an accepted press edge.
C19_ItemAddedMutes ==
    /\ [][HandleOutputItemAdded => suspended']_vars
    /\ [][(suspended /\ ~suspended') =>
            (PressEdgeStep /\ ~waiting_for_reply)]_vars

\* C19 witness: the event muted a mic that the held key had unmuted.
C19_MutedWhileKeyHeld ==
    /\ last.op = "item_added" /\ suspended
    /\ space_was_down /\ speech_start_time /\ ~waiting_for_reply

CommitsSent == Cardinality({i \in 1..Len(turnSent) : turnSent[i] = "commit"})

\* C18: an expiry of the mute-grace timer with the channel open leaves the
\* mic suspended, one more commit sent and the watchdog pending; a commit is
\* sent by no other step, and a turn sends at most one.
C18_GraceExpiryCommitsOnce ==
    /\ [][(OnMute /\ chan = "open") =>
            /\ suspended'
            /\ turnSent' = Append(turnSent, "commit")
            /\ watchdog' = "pending" /\ watchdogTimers' = watchdogTimers + 1]_vars
    /\ [][(turnSent' # turnSent /\ turnSent' # <<>>
            /\ turnSent'[Len(turnSent')] = "commit") => OnMute]_vars
    /\ [](CommitsSent <= 1)

\* C18 witness: the grace timer of a turn has expired with the channel open.
C18_GraceExpired ==
    /\ last.op = "mute" /\ turnSent = <<"commit">> /\ CommitsSent = 1
    /\ suspended /\ watchdog = "pending" /\ mute_timer = "fired"

\* C21 (as claimed): when the events channel has opened and the greeting is
\* sent, the mic is suspended and no response is awaited, and a press edge
\* detected next unmutes the mic.
C21_IdleAtSessionStart ==
    /\ [][OnEventsOpen => (suspended' /\ ~waiting_for_reply')]_vars
    /\ [][(PressEdgeStep /\ last.op = "open") => ~suspended']_vars

\* C21 (amended): when the events channel has opened the mic is suspended
\* and the greeting's response is awaited; waiting_for_reply is cleared by
\* the stopped handler alone, a press edge detected before that leaves the
\* mic muted, and one detected with waiting_for_reply false unmutes it.
C21_GreetingAwaitedAtStart ==
    /\ [][OnEventsOpen =>
            (suspended' /\ waiting_for_reply' /\ ~commit_received')]_vars
    /\ [][(waiting_for_reply /\ ~waiting_for_reply') => HandleStopped]_vars
    /\ [][(PressEdgeStep /\ waiting_for_reply) =>
            (suspended' /\ UNCHANGED speech_start_time)]_vars
    /\ [][(PressEdgeStep /\ ~waiting_for_reply) =>
            (~suspended' /\ speech_start_time')]_vars

\* C21 witness: the first press edge of the session, detected while the
\* greeting's response was awaited, was ignored.
C21_FirstPressIgnored ==
    /\ last.op = "press" /\ ~last.acc /\ suspended /\ waiting_for_reply
    /\ turnSent = <<"create">> /\ rcSinceStopped = 1 /\ ~ackInTurn
    /\ ~speech_start_time /\ chan = "open"

\* C22: handling a message that does not parse, is no object or has an
\* unrecognized type raises nothing out of _handle_event and leaves the
\* flags, the mic, the timers and the messages sent as they were.
C22_BadMessageIgnored ==
    [][(HandleOther /\ last'.op \in {"malformed", "nonobject", "unknown", "raised"}) =>
            /\ last'.op # "raised"
            /\ UNCHANGED <<waiting_for_reply, commit_received, suspended,
                           mute_timer, watchdog, muteTimers, watchdogTimers,
                           turnSent, rcSinceStopped>>]_vars

\* C22 witness: a message that is no JSON was handled in the middle of a
\* turn, its watchdog pending.
C22_MalformedDuringTurn ==
    /\ last.op = "malformed" /\ watchdog = "pending" /\ commit_received = FALSE
    /\ suspended /\ turnSent = <<"commit">> /\ ~waiting_for_reply

\* A step that sends a response.create through request_answer (the greeting's
\* is sent by on_events_open).
GatedCreateSent == rcSinceStopped' = rcSinceStopped + 1 /\ chan = "open"

\* C32: a response.create is requested only with the mic muted and a
\* commit acknowledged; a committed event handled while the mic is unmuted
\* sends nothing and is remembered in commit_received; and with it
\* remembered, the mic muted and no response awaited, the next committed
\* event or the watchdog expiry sends one response.create and starts the
\* wait, so that a turn carries at most one.
C32_CreateNeedsCommitAndMute ==
    /\ [][GatedCreateSent =>
            /\ suspended /\ suspended'
            /\ commit_received \/ HandleCommitted
            /\ ~waiting_for_reply /\ waiting_for_reply'
            /\ turnSent' = Append(turnSent, "create")]_vars
    /\ [][(HandleCommitted /\ ~suspended) =>
            /\ commit_received'
            /\ UNCHANGED <<turnSent, rcSinceStopped, waiting_for_reply>>]_vars
    /\ [][((HandleCommitted \/ WatchdogFire) /\ suspended /\ commit_received
            /\ ~waiting_for_reply /\ chan = "open") =>
            /\ turnSent' = Append(turnSent, "create")
            /\ rcSinceStopped' = rcSinceStopped + 1
            /\ waiting_for_reply' /\ ~commit_received']_vars
    /\ [](RcInTurn <= 1)

\* C32 witness: a committed event was handled while the key was held, the
\* grace timer then muted the mic and sent the commit, no committed event
\* followed, and the watchdog expiry requested the response.
C32_RememberedThenWatchdog ==
    /\ last.op = "watchdog" /\ graceMuted /\ wdRan /\ ~ackRan /\ ackInTurn
    /\ turnSent = <<"commit", "create">> /\ waiting_for_reply
    /\ ~commit_received /\ suspended /\ watchdog = "fired"

\* C34: whenever a response is awaited the mic is suspended, and no step
\* taken while one is awaited (a button edge, a timer, an inbound event)
\* leaves the mic unmuted.
C34_WaitingMeansMuted ==
    /\ [](waiting_for_reply => suspended)
    /\ [][waiting_for_reply => suspended']_vars

\* C34 witness: a gated response.create was sent after the turn's commit,
\* and a press edge detected while its response is awaited left the mic
\* muted.
C34_PressDuringGatedWait ==
    /\ waiting_for_reply /\ suspended /\ turnSent = <<"commit", "create">>
    /\ last.op = "press" /\ ~last.acc /\ space_was_down /\ ackInTurn

\* C35 (as claimed): a response.create other than the greeting's is sent
\* only when the client has sent a commit since the turn began (since the
\* accepted press edge, or since the stopped event that reset the turn).
C35_CreateOnlyAfterCommit ==
    [][GatedCreateSent => CommitsSent >= 1]_vars

\* C36: waiting_for_reply, once true, is cleared by the handling of
\* output_audio_buffer.stopped and by nothing else: any other inbound
\* event (error and response.done among them), either button edge and
\* either timer firing, taken while it is true, leaves it true.
C36_OnlyStoppedEndsWait ==
    /\ [][(waiting_for_reply /\ ~waiting_for_reply') => HandleStopped]_vars
    /\ [][(waiting_for_reply
            /\ (HandleOther \/ HandleCommitted \/ HandleOutputItemAdded
                  \/ PollPressEdge \/ PollReleaseEdge \/ OnMute
                  \/ WatchdogFire))
          => waiting_for_reply']_vars

\* C36 witness: response.done was handled while the response requested
\* after the turn's commit was awaited; the wait goes on.
C36_DoneWhileWaiting ==
    /\ last.op = "response.done" /\ waiting_for_reply
    /\ turnSent = <<"commit", "create">> /\ watchdog = "pending"
    /\ rcSinceStopped = 1 /\ suspended

----------------------------------------------------------------------------
\* (capture.py) MicrophoneStreamTrack: the capture thread, the hardware
\* callback (PyAudio's thread), the frame queue and recv() (event loop).

\* start(): `if not self.is_recording:` sets the flags and spawns a thread.
Start ==
    /\ ~is_recording
    /\ threads < MaxThreads
    /\ is_recording' = TRUE
    /\ force_stop' = FALSE
    /\ threads' = threads + 1
    /\ UNCHANGED <<playVars, sessVars, turnVars, suspended, turnHist, cbPc, cbChunk, scheduled,
                   frames_queue, samples_sent, recvPc, chunksMade, frames, realWhileSuspended>>

\* stop(): `if self.is_recording:` clears is_recording, sets force_stop and
\* joins the thread for at most 2 s: the thread has exited by then, or not.
Stop ==
    /\ is_recording
    /\ is_recording' = FALSE
    /\ force_stop' = TRUE
    /\ \E joined \in BOOLEAN :
          threads' = IF joined /\ threads > 0 THEN threads - 1 ELSE threads
    /\ UNCHANGED <<playVars, sessVars, turnVars, suspended, turnHist, cbPc, cbChunk, scheduled,
                   frames_queue, samples_sent, recvPc, chunksMade, frames, realWhileSuspended>>

\* _start_recorder: `while self.is_recording and not self.force_stop` ends,
\* the stream is closed and the thread exits.
ThreadExit ==
    /\ threads > 0
    /\ ~is_recording \/ force_stop
    /\ threads' = threads - 1
    /\ UNCHANGED <<playVars, sessVars, turnVars, suspended, turnHist, is_recording, force_stop,
                   cbPc, cbChunk, scheduled, frames_queue, samples_sent,
                   recvPc, chunksMade, frames, realWhileSuspended>>

\* suspend(flag), called on the event loop by the turn controller.
SuspendCall ==
    /\ \E flag \in BOOLEAN : suspended' = flag
    /\ UNCHANGED <<playVars, sessVars, turnVars, turnHist, capVars>>

\* Mutant: the callback forwards whatever the mute flag says.
CallbackIgnoresSuspend == is_recording

\* Mutant: the callback forwards whatever is_recording says.
CallbackIgnoresRecording == ~suspended

\* `if not self.suspended and self.is_recording:` of _pyaudio_callback
CallbackForwards == ~suspended /\ is_recording

\* _pyaudio_callback, first half: the device hands over a chunk (one whose
\* bytes convert to a frame, or one recv() raises on) and the callback
\* reads the two flags.
HwCallbackCheck ==
    /\ threads > 0
    /\ cbPc = "idle"
    /\ chunksMade < MaxChunks
    /\ chunksMade' = chunksMade + 1
    /\ \E good \in BOOLEAN :
          IF CallbackForwards
          THEN /\ cbPc' = "passed"
               /\ cbChunk' = [id |-> chunksMade + 1, ok |-> good]
          ELSE UNCHANGED <<cbPc, cbChunk>>
    /\ UNCHANGED <<playVars, sessVars, turnVars, suspended, turnHist, is_recording, force_stop,
                   threads, scheduled, frames_queue, samples_sent, recvPc,
                   frames, realWhileSuspended>>

\* _pyaudio_callback, second half:
\* loop.call_soon_threadsafe(self.frames_queue.put_nowait, in_data)
HwCallbackSchedule ==
    /\ cbPc = "passed"
    /\ scheduled' = Append(scheduled, cbChunk)
    /\ cbPc' = "idle"
    /\ cbChunk' = NoChunk
    /\ UNCHANGED <<playVars, sessVars, turnVars, suspended, turnHist, is_recording, force_stop,
                   threads, frames_queue, samples_sent, recvPc, chunksMade,
                   frames, realWhileSuspended>>

\* The event loop runs the scheduled frames_queue.put_nowait(in_data); the
\* queue is an asyncio.Queue() without maxsize.
LoopPut ==
    /\ scheduled # <<>>
    /\ frames_queue' = Append(frames_queue, Head(scheduled))
    /\ scheduled' = Tail(scheduled)
    /\ UNCHANGED <<playVars, sessVars, turnVars, suspended, turnHist, is_recording, force_stop,
                   threads, cbPc, cbChunk, samples_sent, recvPc, chunksMade,
                   frames, realWhileSuspended>>

\* recv() is called and enters wait_for(self.frames_queue.get(), 0.02).
RecvStart ==
    /\ recvPc = "idle"
    /\ Len(frames) < MaxFrames
    /\ recvPc' = "waiting"
    /\ UNCHANGED <<playVars, sessVars, turnVars, suspended, turnHist, is_recording, force_stop,
                   threads, cbPc, cbChunk, scheduled, frames_queue,
                   samples_sent, chunksMade, frames, realWhileSuspended>>

Frame(kind, id) == [kind |-> kind, pts |-> samples_sent, id |-> id]

\* Mutant: the clock stands still on the exception path.
ClockStuck == samples_sent

\* `self.samples_sent += Config.CHUNK_SIZE` (all three paths of recv)
ClockAdvanced == samples_sent + CHUNK_SIZE

\* recv(): the queue yields a chunk and it converts: a real frame.
RecvReal ==
    /\ recvPc = "waiting"
    /\ frames_queue # <<>>
    /\ Head(frames_queue).ok
    /\ frames_queue' = Tail(frames_queue)
    /\ frames' = Append(frames, Frame("real", Head(frames_queue).id))
    /\ realWhileSuspended' = (realWhileSuspended \/ suspended)
    /\ samples_sent' = ClockAdvanced
    /\ recvPc' = "idle"
    /\ UNCHANGED <<playVars, sessVars, turnVars, suspended, turnHist, is_recording, force_stop,
                   threads, cbPc, cbChunk, scheduled, chunksMade>>

\* `self.samples_sent += Config.CHUNK_SIZE` of the `except Exception` path
ClockAdvancedOnError == samples_sent + CHUNK_SIZE

\* recv(): the queue yields a chunk, building the frame raises, and the
\* `except Exception` path returns silence.
RecvException ==
    /\ recvPc = "waiting"
    /\ frames_queue # <<>>
    /\ ~Head(frames_queue).ok
    /\ frames_queue' = Tail(frames_queue)
    /\ frames' = Append(frames, Frame("silence", Head(frames_queue).id))
    /\ UNCHANGED realWhileSuspended
    /\ samples_sent' = ClockAdvancedOnError
    /\ recvPc' = "idle"
    /\ UNCHANGED <<playVars, sessVars, turnVars, suspended, turnHist, is_recording, force_stop,
                   threads, cbPc, cbChunk, scheduled, chunksMade>>

\* Mutant: a plain `await self.frames_queue.get()`, which never times out.
WaitNeverTimesOut == FALSE

\* wait_for(..., timeout=0.02) raises TimeoutError: nothing was queued.
WaitTimesOut == frames_queue = <<>>

\* Mutant: the timeout path takes the chunk at the head of the queue, when
\* there is one, and returns silence in its place.
RecvTimeoutTakesChunk ==
    /\ recvPc = "waiting"
    /\ frames' = Append(frames, Frame("silence", 0))
    /\ frames_queue' = IF frames_queue = <<>> THEN frames_queue
                       ELSE Tail(frames_queue)
    /\ UNCHANGED realWhileSuspended
    /\ samples_sent' = ClockAdvanced
    /\ recvPc' = "idle"
    /\ UNCHANGED <<playVars, sessVars, turnVars, suspended, turnHist, is_recording, force_stop,
                   threads, cbPc, cbChunk, scheduled, chunksMade>>

\* recv(): the wait times out and the `except asyncio.TimeoutError` path
\* returns silence.
RecvTimeout ==
    /\ recvPc = "waiting"
    /\ WaitTimesOut
    /\ frames' = Append(frames, Frame("silence", 0))
    /\ UNCHANGED realWhileSuspended
    /\ samples_sent' = ClockAdvanced
    /\ recvPc' = "idle"
    /\ UNCHANGED <<playVars, sessVars, turnVars, suspended, turnHist, is_recording, force_stop,
                   threads, cbPc, cbChunk, scheduled, frames_queue,
                   chunksMade>>

CaptureNext ==
    \/ Start
    \/ Stop
    \/ ThreadExit
    \/ SuspendCall
    \/ HwCallbackCheck
    \/ HwCallbackSchedule
    \/ LoopPut
    \/ RecvStart
    \/ RecvReal
    \/ RecvException
    \/ RecvTimeout

\* The microphone track alone, suspend() being called at any moment.
CaptureSpec == Init /\ [][CaptureNext]_vars

\* The same with the event loop running: a recv() inside wait_for is resumed,
\* by the queue or by the timeout.
CaptureFairSpec ==
    CaptureSpec /\ WF_vars(RecvReal \/ RecvException \/ RecvTimeout)

----------------------------------------------------------------------------
\* Properties of the microphone track.

\* C8: every frame recv() returned, real or silence, carries pts equal to
\* CHUNK_SIZE times the number of frames returned before it, and the clock
\* stands at CHUNK_SIZE times the number of frames returned.
C8_PtsStepsByChunk ==
    /\ \A i \in DOMAIN frames : frames[i].pts = CHUNK_SIZE * (i - 1)
    /\ samples_sent = CHUNK_SIZE * Len(frames)

\* C8 witness: real, timeout-silence and exception-silence frames returned.
C8_AllThreePaths ==
    /\ \E i \in DOMAIN frames : frames[i].kind = "real"
    /\ \E i \in DOMAIN frames : frames[i].kind = "silence" /\ frames[i].id = 0
    /\ \E i \in DOMAIN frames : frames[i].kind = "silence" /\ frames[i].id > 0

\* C9: every recv() call returns a frame, also when nothing is ever queued.
C9_RecvReturns ==
    \A n \in 0..MaxFrames :
        (recvPc = "waiting" /\ Len(frames) = n)
            ~> (recvPc = "idle" /\ Len(frames) = n + 1)

\* C9 witness: recv() returned silence although the device never delivered
\* a chunk, with the mic suspended and the recording stopped.
C9_SilenceFromNothing ==
    /\ recvPc = "idle" /\ frames # <<>>
    /\ frames[Len(frames)].kind = "silence"
    /\ chunksMade = 0 /\ suspended /\ ~is_recording /\ force_stop

\* C10 (as claimed): no frame recv() returned while suspended was true is a
\* real captured chunk.
C10_SuspendedMeansSilence == ~realWhileSuspended

\* C12: the frame queue has a fixed capacity below the number of chunks the
\* hardware delivers: a chunk arriving at a full queue is dropped, so the
\* queue never holds every chunk delivered so far once MaxChunks were.
C12_QueueBounded == Len(frames_queue) < MaxChunks

\* C31: the hardware callback goes on to schedule its chunk exactly when, as
\* it runs, suspended is false and is_recording is true, and otherwise
\* returns with the scheduled puts and the queue unchanged; a put is
\* scheduled by nothing else, and the callback that holds a chunk can
\* always schedule it and return, whatever the queue and the loop are doing.
C31_CallbackForwardsIffLive ==
    /\ [][HwCallbackCheck =>
            /\ (cbPc' = "passed") <=> (~suspended /\ is_recording)
            /\ (cbPc' = "passed") => cbChunk'.id = chunksMade'
            /\ UNCHANGED <<scheduled, frames_queue>>]_vars
    /\ [][(Len(scheduled') > Len(scheduled)) =>
            (HwCallbackSchedule /\ scheduled' = Append(scheduled, cbChunk))]_vars
    /\ [](cbPc = "passed" => ENABLED HwCallbackSchedule)

\* C31 witness: the device delivered two chunks; the callback returned
\* without forwarding the first and scheduled the second, which no recv()
\* has taken yet.
C31_OneDroppedOneScheduled ==
    /\ chunksMade = 2 /\ cbPc = "idle"
    /\ Len(scheduled) = 1 /\ scheduled[1].id = 2
    /\ frames_queue = <<>> /\ frames = <<>> /\ recvPc = "waiting"

\* The ids of the chunks on their way to recv(), oldest first: queued,
\* scheduled on the loop, held by the running callback.
PipelineSeq ==
    [i \in 1..Len(frames_queue) |-> frames_queue[i].id]
    \o [i \in 1..Len(scheduled) |-> scheduled[i].id]
    \o (IF cbPc = "passed" THEN <<cbChunk.id>> ELSE <<>>)

\* The ids of the real frames recv() has returned, in the order returned.
RealIds ==
    LET real == SelectSeq(frames, LAMBDA f : f.kind = "real")
    IN  [i \in 1..Len(real) |-> real[i].id]

\* Sequence q holds strictly increasing numbers.
Increasing(q) == \A i, j \in 1..Len(q) : i < j => q[i] < q[j]

----------------------------------------------------------------------------
\* (playback.py) AudioPlayback, and its two callers in client.py.

\* `max_consecutive_errors = 3`
max_consecutive_errors == 3

\* What a step of the per-frame work can raise: track.recv() any of the
\* exceptions play_track names or another one; frame.to_ndarray()/astype a
\* ValueError or the like; output_stream.write() PyAudio's IOError (an
\* OSError) for a device fault, or another exception.
Raises ==
    {"MediaStreamError", "ConnectionError", "OSError", "TimeoutError",
     "StopAsyncIteration", "EosMessage", "Other"}

StepRaises(step) ==
    CASE step = "recv" -> Raises
      [] step = "convert" -> {"Other"}
      [] step = "write" -> {"OSError", "Other"}

\* Mutant: no exception is taken for an end of stream.
EndsStreamNever(e) == FALSE

\* The except clauses that break out as a normal end: the five typed ones
\* and the message-phrase test of `except Exception`.
EndsStream(e) ==
    e \in {"MediaStreamError", "ConnectionError", "OSError", "TimeoutError",
           "StopAsyncIteration", "EosMessage"}

\* `if self.output_stream and self.is_playing:` before the write
WriteAttempted == output_stream # "None" /\ is_playing

\* on_track, kind "audio": start_playback (opening the device may fail, which
\* is printed and leaves is_playing false) and create_task(play_track).
OnTrack ==
    /\ pc = "open"
    /\ playPc = "none"
    /\ \E opened \in BOOLEAN :
         IF opened
         THEN is_playing' = TRUE /\ output_stream' = "open"
         ELSE UNCHANGED <<is_playing, output_stream>>
    /\ playPc' = "loop"
    /\ playLast' = [step |-> "start", exc |-> "none"]
    /\ UNCHANGED <<consecutive_errors, playStop, playIters, errStreak,
                   turnVars, suspended, capVars, turnHist, sessVars>>

\* `while self.is_playing:` and the start of `await track.recv()`.
PlayLoopCheck ==
    /\ playPc = "loop"
    /\ ~playCancel
    /\ IF is_playing
       THEN /\ playIters < MaxPlayIters
            /\ playPc' = "recv"
            /\ playIters' = playIters + 1
            /\ UNCHANGED playStop
       ELSE /\ playPc' = "done"
            /\ playStop' = "flag"
            /\ UNCHANGED playIters
    /\ UNCHANGED <<is_playing, output_stream, consecutive_errors, errStreak,
                   playLast, turnVars, suspended, capVars, turnHist, sessVars>>

\* One frame's work from the return of track.recv() on: step names the step
\* that raised exc, or is "played" (exc "none") when none did.
PlayFrame(step, exc) ==
    /\ playPc = "recv"
    /\ ~playCancel
    /\ step = "write" => WriteAttempted
    /\ playLast' = [step |-> step, exc |-> exc]
    /\ LET count == IF step = "recv" THEN consecutive_errors ELSE 0
       IN  IF step = "played"
           THEN /\ consecutive_errors' = 0
                /\ playPc' = "loop"
                /\ errStreak' = 0
                /\ UNCHANGED playStop
           ELSE IF EndsStream(exc)
           THEN /\ consecutive_errors' = count
                /\ playPc' = "done"
                /\ playStop' = "eos"
                /\ UNCHANGED errStreak
           ELSE /\ consecutive_errors' = count + 1
                /\ errStreak' = errStreak + 1
                /\ IF count + 1 >= max_consecutive_errors
                   THEN playPc' = "done" /\ playStop' = "fatal"
                   ELSE playPc' = "sleep" /\ UNCHANGED playStop
    /\ UNCHANGED <<is_playing, output_stream, playIters,
                   turnVars, suspended, capVars, turnHist, sessVars>>

PlayFramePlayed == PlayFrame("played", "none")

PlayFrameRaises ==
    \E step \in {"recv", "convert", "write"} :
        \E exc \in StepRaises(step) : PlayFrame(step, exc)

\* `await asyncio.sleep(0.1)` returns.
PlayWake ==
    /\ playPc = "sleep"
    /\ ~playCancel
    /\ playPc' = "loop"
    /\ UNCHANGED <<is_playing, output_stream, consecutive_errors, playStop,
                   playIters, errStreak, playLast,
                   turnVars, suspended, capVars, turnHist, sessVars>>

\* The task cancelled by disconnect() gets CancelledError at the await it
\* is suspended in (or before its first step), which no `except Exception`
\* of play_track catches: it ends.
PlayCancelled ==
    /\ playCancel
    /\ playPc \in {"loop", "recv", "sleep"}
    /\ playPc' = "done"
    /\ playStop' = "cancelled"
    /\ playLast' = [step |-> "cancel", exc |-> "none"]
    /\ UNCHANGED <<is_playing, output_stream, consecutive_errors, playIters,
                   errStreak, turnVars, suspended, capVars, turnHist, sessVars>>

----------------------------------------------------------------------------
\* (main.py) VoiceAgent.start and stop, (client.py) connect and disconnect.

\* Mutant: stop() without its is_running test.
RunsTeardownAlways == TRUE

\* `if self.is_running:` of stop()
RunsTeardown == is_running

\* The body of stop() up to its first suspension: is_running is cleared;
\* stop_recording, i.e. track.stop() (flags, join of at most 2 s,
\* terminate); disconnect() then cancels the push-to-talk task and awaits
\* it, or, when that task was never made (the channel has not opened), goes
\* on to cancel the player task.
StopBody ==
    /\ is_running' = FALSE
    /\ teardowns' = teardowns + 1
    /\ UNCHANGED stopSkipped
    /\ IF is_recording
       THEN /\ is_recording' = FALSE
            /\ force_stop' = TRUE
            /\ \E joined \in BOOLEAN :
                 threads' = IF joined /\ threads > 0 THEN threads - 1
                            ELSE threads
       ELSE UNCHANGED <<is_recording, force_stop, threads>>
    /\ IF chan # "connecting"
       THEN /\ pttCancelled' = TRUE
            /\ stopPc' = "ptt"
            /\ UNCHANGED playCancel
       ELSE /\ playCancel' = (playPc \in {"loop", "recv", "sleep"})
            /\ stopPc' = "player"
            /\ UNCHANGED pttCancelled

\* What a step leaves alone when it does not call stop().
StopNotCalled ==
    UNCHANGED <<teardowns, stopSkipped, is_recording, force_stop, threads,
                pttCancelled, playCancel, stopPc>>

\* One call of stop(): its body, or nothing when is_running is false.
StopCall ==
    IF RunsTeardown
    THEN StopBody
    ELSE /\ stopSkipped' = TRUE
         /\ UNCHANGED <<is_running, teardowns, is_recording, force_stop,
                        threads, pttCancelled, playCancel, stopPc>>

\* start(), steps 1 and 2: create_session (which may fail: return) and
\* start_recording, i.e. a new track and its start().
AgentStartRecording ==
    /\ agentPc = "created"
    /\ \E created \in BOOLEAN :
         IF created
         THEN /\ agentPc' = "recording"
              /\ is_recording' = TRUE
              /\ force_stop' = FALSE
              /\ threads' = threads + 1
         ELSE /\ agentPc' = "ended"
              /\ UNCHANGED <<is_recording, force_stop, threads>>
    /\ UNCHANGED <<turnVars, suspended, turnHist, playVars, cbPc, cbChunk,
                   scheduled, frames_queue, samples_sent, recvPc, chunksMade,
                   frames, realWhileSuspended, restarts, is_running, pc,
                   connState, pttCancelled, playCancel, stopPc, stopTasks,
                   teardowns, stopSkipped>>

\* start(), step 3: connect(mic_track) returns True, returns False after
\* the peer connection was made (SDP exchange refused), or returns False
\* from its `except Exception` before it was; on False start() calls
\* stop() and returns.
AgentConnect ==
    /\ agentPc = "recording"
    /\ \E res \in {"ok", "refused", "raised"} :
         /\ pc' = IF res = "raised" THEN pc ELSE "open"
         /\ agentPc' = IF res = "ok" THEN "waiting" ELSE "ended"
         /\ IF res = "ok"
            THEN StopNotCalled /\ UNCHANGED is_running
            ELSE StopCall
    /\ UNCHANGED <<turnVars, suspended, turnHist, playVars, cbPc, cbChunk,
                   scheduled, frames_queue, samples_sent, recvPc, chunksMade,
                   frames, realWhileSuspended, restarts, connState,
                   stopTasks>>

\* is_connected: set by on_connectionstatechange on "connected", never reset.
IsConnected == connState \in {"connected", "lost"}

\* on_connectionstatechange, connectionState "connected".
ConnConnected ==
    /\ pc = "open"
    /\ connState = "new"
    /\ connState' = "connected"
    /\ UNCHANGED <<turnVars, suspended, capVars, turnHist, playVars, restarts,
                   is_running, agentPc, pc, pttCancelled, playCancel, stopPc,
                   stopTasks, teardowns, stopSkipped>>

\* on_connectionstatechange, connectionState "failed": a print.
ConnFailed ==
    /\ pc = "open"
    /\ connState \in {"new", "connected"}
    /\ connState' = IF connState = "connected" THEN "lost" ELSE "failed"
    /\ UNCHANGED <<turnVars, suspended, capVars, turnHist, playVars, restarts,
                   is_running, agentPc, pc, pttCancelled, playCancel, stopPc,
                   stopTasks, teardowns, stopSkipped>>

\* start(), steps 4 and 5: wait_for_session returns True once is_connected,
\* or False after 30 s without it; on False start() calls stop() and
\* returns.
AgentSessionReady ==
    /\ agentPc = "waiting"
    /\ IF IsConnected
       THEN /\ is_running' = TRUE
            /\ agentPc' = "running"
            /\ StopNotCalled
       ELSE /\ agentPc' = "ended"
            /\ StopCall
    /\ UNCHANGED <<turnVars, suspended, turnHist, playVars, cbPc, cbChunk,
                   scheduled, frames_queue, samples_sent, recvPc, chunksMade,
                   frames, realWhileSuspended, restarts, pc, connState,
                   stopTasks>>

\* signal_handler (SIGINT, SIGTERM): `if agent.is_running:` makes a task
\* that will run stop().
SignalHandler ==
    /\ is_running
    /\ stopTasks < MaxStopTasks
    /\ stopTasks' = stopTasks + 1
    /\ UNCHANGED <<turnVars, suspended, capVars, turnHist, playVars, restarts,
                   is_running, agentPc, pc, connState, pttCancelled,
                   playCancel, stopPc, teardowns, stopSkipped>>

\* A task the signal handler made runs stop() up to its first suspension.
AgentStop ==
    /\ stopTasks > 0
    /\ stopTasks' = stopTasks - 1
    /\ StopCall
    /\ UNCHANGED <<turnVars, suspended, turnHist, playVars, cbPc, cbChunk,
                   scheduled, frames_queue, samples_sent, recvPc, chunksMade,
                   frames, realWhileSuspended, restarts, agentPc, pc,
                   connState>>

\* main(): KeyboardInterrupt ends `await agent.start()` in the conversation
\* loop; `if agent.is_running:` calls stop() inline.
MainInterrupted ==
    /\ agentPc = "running"
    /\ agentPc' = "ended"
    /\ IF is_running
       THEN StopCall
       ELSE StopNotCalled /\ UNCHANGED is_running
    /\ UNCHANGED <<turnVars, suspended, turnHist, playVars, cbPc, cbChunk,
                   scheduled, frames_queue, samples_sent, recvPc, chunksMade,
                   frames, realWhileSuspended, restarts, pc, connState,
                   stopTasks>>

\* conversation_loop finds is_running false and start() returns.
ConversationLoopEnds ==
    /\ agentPc = "running"
    /\ ~is_running
    /\ agentPc' = "ended"
    /\ UNCHANGED <<turnVars, suspended, capVars, turnHist, playVars, restarts,
                   is_running, pc, connState, pttCancelled, playCancel,
                   stopPc, stopTasks, teardowns, stopSkipped>>

\* disconnect(): the await of the push-to-talk task has returned;
\* player_task.cancel(), if the task was made and runs.
DisconnectCancelPlayer ==
    /\ stopPc = "ptt"
    /\ stopPc' = "player"
    /\ playCancel' = (playPc \in {"loop", "recv", "sleep"})
    /\ UNCHANGED <<turnVars, suspended, capVars, turnHist, playVars, restarts,
                   is_running, agentPc, pc, connState, pttCancelled,
                   stopTasks, teardowns, stopSkipped>>

\* Mutant: disconnect does not await the cancelled player task.
TaskStoppedNotAwaited == TRUE

\* `await self.player_task` has returned: the task is done (or was never made).
TaskStopped == playPc \in {"none", "done"}

\* disconnect(): stop_playback(), after the await of the player task.
DisconnectStopPlayback ==
    /\ stopPc = "player"
    /\ TaskStopped
    /\ stopPc' = "playback"
    /\ is_playing' = FALSE
    /\ output_stream' = IF is_playing /\ output_stream = "open"
                        THEN "closed" ELSE output_stream
    /\ UNCHANGED <<playPc, consecutive_errors, playStop, playIters, errStreak,
                   playLast, turnVars, suspended, capVars, turnHist, restarts,
                   is_running, agentPc, pc, connState, pttCancelled,
                   playCancel, stopTasks, teardowns, stopSkipped>>

\* disconnect(): `await self.pc.close()`, which closes the events channel.
DisconnectClosePc ==
    /\ stopPc = "playback"
    /\ stopPc' = "closed"
    /\ pc' = IF pc = "open" THEN "closed" ELSE pc
    /\ IF chan = "open"
       THEN /\ chan' = "closed"
            /\ last' = Step("close")
            /\ graceMuted' = FALSE
            /\ ackRan' = FALSE
            /\ wdRan' = FALSE
            /\ scenario' = 0
       ELSE UNCHANGED <<chan, last, graceMuted, ackRan, wdRan, scenario>>
    /\ UNCHANGED <<waiting_for_reply, commit_received, space, space_was_down,
                   mute_timer, watchdog, muteTimers, watchdogTimers,
                   speech_start_time, suspended, turnSent, rcSinceStopped,
                   ackInTurn, capVars, playVars, restarts, is_running,
                   agentPc, connState, pttCancelled, playCancel, stopTasks,
                   teardowns, stopSkipped>>

\* The events channel belongs to the peer connection connect() made.
SessionChannelOpens == pc = "open" /\ OnEventsOpen

LifecycleNext ==
    \/ AgentStartRecording
    \/ AgentConnect
    \/ SessionChannelOpens
    \/ ConnConnected
    \/ ConnFailed
    \/ AgentSessionReady
    \/ SignalHandler
    \/ AgentStop
    \/ MainInterrupted
    \/ ConversationLoopEnds
    \/ DisconnectCancelPlayer
    \/ DisconnectStopPlayback
    \/ DisconnectClosePc

PlaybackNext ==
    \/ OnTrack
    \/ PlayLoopCheck
    \/ PlayFramePlayed
    \/ PlayFrameRaises
    \/ PlayWake
    \/ PlayCancelled
    \/ LifecycleNext

\* The play loop in a session that starts, runs and is stopped.
PlaybackSpec == Init /\ [][PlaybackNext]_vars

----------------------------------------------------------------------------
\* Claims about play_track.

\* C13 (as claimed): play_track has given up with the fatal error exactly
\* when max_consecutive_errors frames in a row hit a real error, whichever
\* step raised it.
C13_FatalAfterThreeErrors ==
    (errStreak >= max_consecutive_errors) <=> (playStop = "fatal")

\* The exceptions the claim calls a benign end of stream.
EndOfStream == {"MediaStreamError", "ConnectionError", "StopAsyncIteration"}

\* C14: when track.recv() ends with a benign end of stream, play_track
\* leaves its loop at once as a normal end, the counter unchanged.
C14_EndOfStreamStops ==
    [][(\E e \in EndOfStream : PlayFrame("recv", e)) =>
            /\ playPc' = "done"
            /\ playStop' = "eos"
            /\ consecutive_errors' = consecutive_errors]_vars

\* C14 witness: the stream ended after two real errors in a row.
C14_EndedWithCountTwo ==
    /\ playLast.step = "recv" /\ playLast.exc \in EndOfStream
    /\ consecutive_errors = 2 /\ playStop = "eos" /\ playPc = "done"

\* C15 (as claimed): an error raised by writing a frame does not stop
\* playback unless it exhausts the consecutive-error limit.
C15_WriteFaultRetried ==
    [][(\E e \in {"OSError", "Other"} : PlayFrame("write", e)) =>
            (playPc' # "done"
             \/ consecutive_errors' >= max_consecutive_errors)]_vars

\* C27: the output stream is closed only once the play loop has ended, so
\* a step of play_track that writes a frame finds the stream open.
C27_NoWriteAfterClose ==
    /\ [](output_stream = "closed" => playPc \in {"none", "done"})
    /\ [][((PlayFramePlayed /\ WriteAttempted)
            \/ (\E e \in {"OSError", "Other"} : PlayFrame("write", e)))
          => output_stream = "open"]_vars

\* C27 witness: disconnect cancelled the player task while it awaited a
\* frame, a frame having been written before, and then closed the stream.
C27_ClosedAfterCancel ==
    /\ output_stream = "closed" /\ ~is_playing /\ stopPc = "playback"
    /\ playStop = "cancelled" /\ playIters >= 2 /\ playCancel

----------------------------------------------------------------------------
\* The turn controller together with the microphone track it mutes and
\* unmutes, in a session whose recording was started and is not stopped;
\* events that touch no state are left out.
VoiceNext ==
    \/ OnEventsOpen
    \/ ChanClose
    \/ KeyDown
    \/ KeyUp
    \/ PollPressEdge
    \/ PollReleaseEdge
    \/ OnMute
    \/ WatchdogFire
    \/ HandleCommitted
    \/ HandleOutputItemAdded
    \/ HandleStopped
    \/ Start
    \/ HwCallbackCheck
    \/ HwCallbackSchedule
    \/ LoopPut
    \/ RecvStart
    \/ RecvReal
    \/ RecvTimeout

VoiceSpec == Init /\ [][VoiceNext]_vars

\* The chunks on their way to recv(): held by the running callback,
\* scheduled on the loop, or queued.
PipelineIds ==
    (IF cbPc = "passed" THEN {cbChunk.id} ELSE {})
    \cup {scheduled[i].id : i \in 1..Len(scheduled)}
    \cup {frames_queue[i].id : i \in 1..Len(frames_queue)}

\* C11 (as claimed): while the last edge detected is the release edge of a
\* turn (its grace timer pending or expired), recv() returns no real frame.
C11_NoRealAfterRelease ==
    [][RecvReal => mute_timer \notin {"pending", "fired"}]_vars

\* C11 (amended): the expiry of the grace timer mutes the mic, the mic stays
\* muted until an accepted press edge, and while it is muted no new chunk
\* enters the way to recv(): the real frames returned then were forwarded
\* before the mute.
C11_NoChunkForwardedAfterMute ==
    /\ [][OnMute => suspended']_vars
    /\ [][(suspended /\ ~suspended') =>
            (~space_was_down /\ space_was_down' /\ ~waiting_for_reply)]_vars
    /\ [][(suspended /\ suspended') => PipelineIds' \subseteq PipelineIds]_vars

\* C11 witness: the grace timer of a turn has expired, a chunk forwarded
\* before the mute came out of recv() after it, and silence followed.
C11_MutedAfterGrace ==
    /\ mute_timer = "fired" /\ suspended /\ realWhileSuspended
    /\ chunksMade = MaxChunks /\ PipelineIds = {}
    /\ frames # <<>> /\ frames[Len(frames)].kind = "silence"

----------------------------------------------------------------------------
\* (capture.py) _start_recorder: the stream going inactive, and failures.

\* The loop finds `not self.stream.is_active()` and the close + reopen +
\* start_stream succeeds: the thread goes on; no attempt is counted.
ThreadRestart ==
    /\ threads > 0
    /\ is_recording /\ ~force_stop
    /\ restarts < MaxRestarts
    /\ restarts' = restarts + 1
    /\ UNCHANGED <<turnVars, suspended, capVars, turnHist, playVars,
                   is_running, agentPc, pc, connState, pttCancelled,
                   playCancel, stopPc, stopTasks, teardowns, stopSkipped>>

\* pyaudio.open/start_stream raises, at the thread's start (`except
\* Exception` of line 90) or in a restart (`break` of line 86): the thread
\* ends; `finally` closes nothing and no flag is written.
ThreadFails ==
    /\ threads > 0
    /\ is_recording /\ ~force_stop
    /\ threads' = threads - 1
    /\ UNCHANGED <<turnVars, suspended, turnHist, playVars, sessVars,
                   is_recording, force_stop, cbPc, cbChunk, scheduled,
                   frames_queue, samples_sent, recvPc, chunksMade, frames,
                   realWhileSuspended>>

RecorderNext ==
    \/ CaptureNext
    \/ ThreadRestart
    \/ ThreadFails

\* The microphone track with a device that can go inactive or fail.
RecorderSpec == Init /\ [][RecorderNext]_vars

\* C28 (as claimed): the capture thread gives up before it has restarted
\* the stream MaxRestarts times.
C28_RestartsBounded == restarts < MaxRestarts

\* C29 (as claimed): is_recording is true only while a capture thread is
\* alive.
C29_RecordingMeansThreadAlive == is_recording => threads > 0

\* C30 (as claimed): at most one capture thread is alive.
C30_OneCaptureThread == threads <= 1

----------------------------------------------------------------------------
\* The whole session: start, the turn controller once the channel of the
\* peer connection has opened, the capture thread's exit, the player task
\* (awaiting frames), and stop.

SessionNext ==
    \/ LifecycleNext
    \/ KeyDown
    \/ KeyUp
    \/ PollPressEdge
    \/ PollReleaseEdge
    \/ OnMute
    \/ WatchdogFire
    \/ HandleCommitted
    \/ HandleStopped
    \/ ThreadExit
    \/ OnTrack
    \/ PlayLoopCheck
    \/ PlayCancelled

SessionSpec == Init /\ [][SessionNext]_vars

\* The steps the program takes by itself once they are due: the event loop
\* runs ready tasks and expired timers, and the capture thread runs. The
\* user's key and interrupt, the server's events and the transport's state
\* changes are under no such obligation.
SessionFairSpec ==
    /\ SessionSpec
    /\ WF_vars(AgentStartRecording \/ AgentConnect \/ AgentSessionReady
                 \/ ConversationLoopEnds)
    /\ WF_vars(AgentStop)
    /\ WF_vars(DisconnectCancelPlayer \/ DisconnectStopPlayback
                 \/ DisconnectClosePc)
    /\ WF_vars(PlayLoopCheck \/ PlayCancelled)
    /\ WF_vars(PollPressEdge \/ PollReleaseEdge)
    /\ WF_vars(OnMute \/ WatchdogFire)
    /\ WF_vars(ThreadExit)

\* C23 (as claimed): when start() has returned and no stop is under way,
\* nothing is left running or open: no recording, no capture thread, no
\* open playback stream, no open peer connection.
C23_EndedMeansReleased ==
    (agentPc = "ended" /\ stopPc \in {"idle", "closed"}) =>
        /\ ~is_recording
        /\ threads = 0
        /\ output_stream # "open"
        /\ pc # "open"

\* C24 (as claimed): a connection failure during a running session leads to
\* the completed teardown.
C24_FailureTearsDown ==
    (is_running /\ connState \in {"failed", "lost"}) ~> (stopPc = "closed")

\* C25 (as claimed): when stop releases the capture device, and when it
\* releases the playback device, no turn timer is scheduled, force_stop is
\* set and an outstanding player task has been cancelled.
C25_DevicesReleasedLast ==
    /\ [][(AgentStop /\ is_recording) =>
            /\ muteTimers = 0 /\ watchdogTimers = 0
            /\ (playPc \in {"loop", "recv", "sleep"} => playCancel)]_vars
    /\ [][DisconnectStopPlayback =>
            /\ muteTimers = 0 /\ watchdogTimers = 0
            /\ force_stop
            /\ playPc \in {"none", "done"}]_vars

\* C26 (as claimed): once the push-to-talk task is cancelled, neither
\* _on_mute nor check_missed_turn runs.
C26_NoTimerAfterCancel ==
    [][(OnMute \/ WatchdogFire) => ~pttCancelled]_vars

\* C33: the body of stop() is entered at most once in a session, however
\* many stop() calls are made and however they interleave: it is entered
\* only by a call that finds is_running true, and that call clears
\* is_running in the same step, before anything else can run.
C33_TeardownAtMostOnce ==
    /\ [](teardowns <= 1)
    /\ [][(teardowns' # teardowns) =>
            (is_running /\ ~is_running' /\ teardowns' = teardowns + 1)]_vars
    /\ [][(is_running /\ ~is_running') => teardowns' = teardowns + 1]_vars

\* C33 witness: two interrupt signals made two stop() tasks; the first ran
\* the teardown and is suspended inside disconnect, the second has run and
\* found is_running false.
C33_SecondStopSkipped ==
    /\ teardowns = 1 /\ stopSkipped /\ stopTasks = 0
    /\ stopPc \in {"ptt", "player"} /\ agentPc = "running" /\ ~is_running

====
